---------------------------- MODULE Spec2Model ----------------------------
(***************************************************************************)
(* rsff (scanlation file format): the Document / Balloon data model, the   *)
(* XML renderer (Document::to_xml, Balloon::to_xml), the XML decoder       *)
(* (Document::xml_to_doc), the plain-text renderer (to_string) and the     *)
(* save / open pair that ties them together.                               *)
(*                                                                         *)
(* Text is a sequence of characters; a character is a one-character        *)
(* string.  Bytes are integers 0..255.                                     *)
(***************************************************************************)
EXTENDS Integers, Sequences, FiniteSets, TLC

VARIABLES d, file, res

vars == <<d, file, res>>

(***************************************************************************)
(* Bounds of the model.                                                    *)
(***************************************************************************)
\* Size of a Document the editing actions build: balloons + lines + images
\* + balloons of a non-default type + a non-empty app version.
MaxSize == 3
\* Size of a Document whose stored XML file outside edits are tried on.
MaxEditSize == 2
\* Size of a text the plain-text decoder is given: a marker line "//" counts
\* 1, a well-formed content line 2, any other line 3.
MaxTxtSize == 10
\* Size of a Document that is saved as text and opened again: the number of
\* its balloons, of their translation and proofread lines, and of their
\* types other than the default.
MaxRenderSize == 6
\* Characters an outside edit may leave of a stored text file.
MaxCut == 2

(***************************************************************************)
(* Generic helpers over sequences.                                         *)
(***************************************************************************)
RECURSIVE SumSeq(_)
SumSeq(s) == IF s = <<>> THEN 0 ELSE Head(s) + SumSeq(Tail(s))

RECURSIVE Concat(_)
Concat(ss) == IF ss = <<>> THEN <<>> ELSE Head(ss) \o Concat(Tail(ss))

\* slice::join: the elements of ss with sep between each two
RECURSIVE Join(_, _)
Join(ss, sep) ==
    IF ss = <<>> THEN <<>>
    ELSE IF Len(ss) = 1 THEN Head(ss)
    ELSE Head(ss) \o sep \o Join(Tail(ss), sep)

MapSeq(s, Op(_)) == [i \in 1..Len(s) |-> Op(s[i])]

\* str::len: the length of a text in bytes of its UTF-8 encoding
TwoByteChars == {"e_acute"}
Utf8Len(c) == IF c \in TwoByteChars THEN 2 ELSE 1
StrLen(s) == SumSeq([i \in 1..Len(s) |-> Utf8Len(s[i])])

\* format!("{}", n) of a usize: its decimal digits
DigitChars == <<"0", "1", "2", "3", "4", "5", "6", "7", "8", "9">>
RECURSIVE FmtUsize(_)
FmtUsize(n) ==
    IF n < 10 THEN <<DigitChars[n + 1]>>
    ELSE FmtUsize(n \div 10) \o <<DigitChars[(n % 10) + 1]>>

(***************************************************************************)
(* consts.rs: TYPES, and its default.                                      *)
(***************************************************************************)
TYPES == {"DIALOGUE", "SQUARE", "THINKING", "ST", "OT"}
TYPES_default == "DIALOGUE"

(***************************************************************************)
(* The base64 engine B64: URL-safe alphabet, no padding.                   *)
(***************************************************************************)
B64Alphabet ==
    <<"A", "B", "C", "D", "E", "F", "G", "H", "I", "J", "K", "L", "M", "N", "O", "P",
      "Q", "R", "S", "T", "U", "V", "W", "X", "Y", "Z", "a", "b", "c", "d", "e", "f",
      "g", "h", "i", "j", "k", "l", "m", "n", "o", "p", "q", "r", "s", "t", "u", "v",
      "w", "x", "y", "z", "0", "1", "2", "3", "4", "5", "6", "7", "8", "9", "-", "_">>

B64Char(v) == B64Alphabet[v + 1]
B64Value(c) == CHOOSE v \in 0..63 : B64Alphabet[v + 1] = c
IsB64Char(c) == \E v \in 0..63 : B64Alphabet[v + 1] = c

\* B64.encode(&img.img_data)
RECURSIVE B64_encode(_)
B64_encode(bytes) ==
    IF bytes = <<>> THEN <<>>
    ELSE IF Len(bytes) = 1 THEN
        <<B64Char(bytes[1] \div 4), B64Char((bytes[1] % 4) * 16)>>
    ELSE IF Len(bytes) = 2 THEN
        LET n == (bytes[1] * 256 + bytes[2]) * 4
        IN  <<B64Char(n \div 4096), B64Char((n \div 64) % 64), B64Char(n % 64)>>
    ELSE
        LET n == bytes[1] * 65536 + bytes[2] * 256 + bytes[3]
        IN  <<B64Char(n \div 262144), B64Char((n \div 4096) % 64),
              B64Char((n \div 64) % 64), B64Char(n % 64)>>
            \o B64_encode(SubSeq(bytes, 4, Len(bytes)))

\* B64.decode(text): the bytes, or a DecodeError (a symbol outside the
\* alphabet, padding, an impossible length, non-zero trailing bits)
RECURSIVE B64DecodeValid(_)
B64DecodeValid(cs) ==
    IF cs = <<>> THEN <<>>
    ELSE IF Len(cs) = 2 THEN
        <<B64Value(cs[1]) * 4 + (B64Value(cs[2]) \div 16)>>
    ELSE IF Len(cs) = 3 THEN
        LET n == B64Value(cs[1]) * 4096 + B64Value(cs[2]) * 64 + B64Value(cs[3])
        IN  <<n \div 1024, (n \div 4) % 256>>
    ELSE
        LET n == B64Value(cs[1]) * 262144 + B64Value(cs[2]) * 4096
                 + B64Value(cs[3]) * 64 + B64Value(cs[4])
        IN  <<n \div 65536, (n \div 256) % 256, n % 256>>
            \o B64DecodeValid(SubSeq(cs, 5, Len(cs)))

B64_decode(cs) ==
    LET r == Len(cs) % 4
        symbolsOk == \A i \in 1..Len(cs) : IsB64Char(cs[i])
        lengthOk == r # 1
        trailingOk ==
            CASE r = 2 -> B64Value(cs[Len(cs)]) % 16 = 0
              [] r = 3 -> B64Value(cs[Len(cs)]) % 4 = 0
              [] OTHER -> TRUE
    IN  IF symbolsOk /\ lengthOk /\ trailingOk
        THEN [ok |-> TRUE, bytes |-> B64DecodeValid(cs)]
        ELSE [ok |-> FALSE, bytes |-> <<>>]

(***************************************************************************)
(* balloon.rs: BalloonImage, Balloon.                                      *)
(***************************************************************************)
\* Option<BalloonImage>::None
NoImage == [some |-> FALSE, img_type |-> <<>>, img_data |-> <<>>]
\* Some(BalloonImage {img_type, img_data})
SomeImage(img_type, img_data) ==
    [some |-> TRUE, img_type |-> img_type, img_data |-> img_data]

Balloon_default ==
    [tl_content |-> <<>>, pr_content |-> <<>>, comments |-> <<>>,
     btype |-> TYPES_default, balloon_img |-> NoImage]

add_image(b, img_type, img_data) ==
    [b EXCEPT !.balloon_img = SomeImage(img_type, img_data)]

remove_img(b) == [b EXCEPT !.balloon_img = NoImage]

Balloon_tl_chars(b) == SumSeq(MapSeq(b.tl_content, StrLen))
Balloon_pr_chars(b) == SumSeq(MapSeq(b.pr_content, StrLen))
Balloon_comments_chars(b) == SumSeq(MapSeq(b.comments, StrLen))

\* a line count that adds the translation lines to the proofread lines
Balloon_line_count_both(b) == Len(b.pr_content) + Len(b.tl_content)

Balloon_line_count(b) ==
    IF Len(b.pr_content) > 0 THEN Len(b.pr_content) ELSE Len(b.tl_content)

\* the balloon type header text of to_string
TypeHeader(t) ==
    CASE t = "DIALOGUE" -> <<"(", ")", ":", " ">>
      [] t = "OT"       -> <<"O", "T", ":", " ">>
      [] t = "SQUARE"   -> <<"[", "]", ":", " ">>
      [] t = "ST"       -> <<"S", "T", ":", " ">>
      [] t = "THINKING" -> <<"{", "}", ":", " ">>

\* the separator of the lines of one balloon: "\n//\n"
LineSep == <<"\n", "/", "/", "\n">>
\* the separator of balloons in Document::to_string: "\n\n"
BalloonSep == <<"\n", "\n">>

\* a rendering that keeps the translation lines under the proofread lines
Balloon_to_string_both(b) ==
    LET type_str == TypeHeader(b.btype)
        Fmt(line) == type_str \o line
    IN  Join(MapSeq(b.pr_content \o b.tl_content, Fmt), LineSep)

Balloon_to_string(b) ==
    LET type_str == TypeHeader(b.btype)
        Fmt(line) == type_str \o line
    IN  IF Len(b.pr_content) > 0
        THEN Join(MapSeq(b.pr_content, Fmt), LineSep)
        ELSE Join(MapSeq(b.tl_content, Fmt), LineSep)

(***************************************************************************)
(* Names and literals of the XML wire format.                              *)
(***************************************************************************)
N_Document == <<"D", "o", "c", "u", "m", "e", "n", "t">>
N_Metadata == <<"M", "e", "t", "a", "d", "a", "t", "a">>
N_Script == <<"S", "c", "r", "i", "p", "t">>
N_App == <<"A", "p", "p">>
N_Info == <<"I", "n", "f", "o">>
N_TLLength == <<"T", "L", "L", "e", "n", "g", "t", "h">>
N_PRLength == <<"P", "R", "L", "e", "n", "g", "t", "h">>
N_CMLength == <<"C", "M", "L", "e", "n", "g", "t", "h">>
N_BalloonCount == <<"B", "a", "l", "l", "o", "o", "n", "C", "o", "u", "n", "t">>
N_LineCount == <<"L", "i", "n", "e", "C", "o", "u", "n", "t">>
N_Balloons == <<"B", "a", "l", "l", "o", "o", "n", "s">>
N_Balloon == <<"B", "a", "l", "l", "o", "o", "n">>
N_TL == <<"T", "L">>
N_PR == <<"P", "R">>
N_Comment == <<"C", "o", "m", "m", "e", "n", "t">>
N_img == <<"i", "m", "g">>
N_type == <<"t", "y", "p", "e">>

\* "<name>", "</name>", "<name>text</name>", "<name type=\"v\">"
OpenTag(name) == <<"<">> \o name \o <<">">>
CloseTag(name) == <<"<", "/">> \o name \o <<">">>
Elem(name, text) == OpenTag(name) \o text \o CloseTag(name)
OpenTagTyped(name, v) ==
    <<"<">> \o name \o <<" ">> \o N_type \o <<"=", "\"">> \o v \o <<"\"", ">">>

\* the balloon type attribute text of to_xml
TypeAttr(t) ==
    CASE t = "DIALOGUE" -> <<"D", "i", "a", "l", "o", "g", "u", "e">>
      [] t = "SQUARE"   -> <<"S", "q", "u", "a", "r", "e">>
      [] t = "ST"       -> <<"S", "T">>
      [] t = "OT"       -> <<"O", "T">>
      [] t = "THINKING" -> <<"T", "h", "i", "n", "k", "i", "n", "g">>

\* the <img> element of a balloon that has an image, nothing otherwise
ImgXml(b) ==
    IF b.balloon_img.some
    THEN OpenTagTyped(N_img, b.balloon_img.img_type)
         \o B64_encode(b.balloon_img.img_data) \o CloseTag(N_img)
    ELSE <<>>

\* a rendering that writes the PR elements before the TL elements
Balloon_to_xml_pr_first(b) ==
    LET TlXml(tl) == Elem(N_TL, tl)
        PrXml(pr) == Elem(N_PR, pr)
        CommentXml(c) == Elem(N_Comment, c)
    IN  OpenTagTyped(N_Balloon, TypeAttr(b.btype))
        \o Concat(MapSeq(b.pr_content, PrXml))
        \o Concat(MapSeq(b.tl_content, TlXml))
        \o Concat(MapSeq(b.comments, CommentXml))
        \o ImgXml(b)
        \o CloseTag(N_Balloon)

Balloon_to_xml(b) ==
    LET TlXml(tl) == Elem(N_TL, tl)
        PrXml(pr) == Elem(N_PR, pr)
        CommentXml(c) == Elem(N_Comment, c)
    IN  OpenTagTyped(N_Balloon, TypeAttr(b.btype))
        \o Concat(MapSeq(b.tl_content, TlXml))
        \o Concat(MapSeq(b.pr_content, PrXml))
        \o Concat(MapSeq(b.comments, CommentXml))
        \o ImgXml(b)
        \o CloseTag(N_Balloon)

(***************************************************************************)
(* lib.rs: Document.                                                       *)
(***************************************************************************)
ScriptVersionDefault ==
    <<"S", "c", "a", "n", "l", "a", "t", "i", "o", "n", " ", "S", "c", "r", "i", "p",
      "t", " ", "F", "i", "l", "e", " ", "v", "0", ".", "2", ".", "0">>
InfoDefault == <<"N", "u", "m">>

Document_default ==
    [METADATA_SCRIPT_VERSION |-> ScriptVersionDefault,
     METADATA_APP_VERSION |-> <<>>,
     METADATA_INFO |-> InfoDefault,
     balloons |-> <<>>]

Document_tl_chars(doc) == SumSeq(MapSeq(doc.balloons, Balloon_tl_chars))
Document_pr_chars(doc) == SumSeq(MapSeq(doc.balloons, Balloon_pr_chars))
Document_comment_chars(doc) == SumSeq(MapSeq(doc.balloons, Balloon_comments_chars))
Document_line_count(doc) == SumSeq(MapSeq(doc.balloons, Balloon_line_count))
Document_len(doc) == Len(doc.balloons)

Document_to_string(doc) ==
    Join(MapSeq(doc.balloons, Balloon_to_string), BalloonSep)

\* metrics kept from construction instead of computed at render time
MetricsXml_cached(doc) ==
    Elem(N_TLLength, FmtUsize(0))
    \o Elem(N_PRLength, FmtUsize(0))
    \o Elem(N_CMLength, FmtUsize(0))
    \o Elem(N_BalloonCount, FmtUsize(0))
    \o Elem(N_LineCount, FmtUsize(0))

\* the five derived metrics, as to_xml writes them into <Metadata>
MetricsXml(doc) ==
    Elem(N_TLLength, FmtUsize(Document_tl_chars(doc)))
    \o Elem(N_PRLength, FmtUsize(Document_pr_chars(doc)))
    \o Elem(N_CMLength, FmtUsize(Document_comment_chars(doc)))
    \o Elem(N_BalloonCount, FmtUsize(Len(doc.balloons)))
    \o Elem(N_LineCount, FmtUsize(Document_line_count(doc)))

Document_to_xml(doc) ==
    OpenTag(N_Document) \o OpenTag(N_Metadata)
    \o Elem(N_Script, doc.METADATA_SCRIPT_VERSION)
    \o Elem(N_App, doc.METADATA_APP_VERSION)
    \o Elem(N_Info, doc.METADATA_INFO)
    \o MetricsXml(doc)
    \o CloseTag(N_Metadata)
    \o OpenTag(N_Balloons)
    \o Concat(MapSeq(doc.balloons, Balloon_to_xml))
    \o CloseTag(N_Balloons)
    \o CloseTag(N_Document)

(***************************************************************************)
(* roxmltree::Document::parse, for the part of XML the files of this       *)
(* format use: elements, attributes, character data and the predefined     *)
(* entity references.  (Comments, processing instructions, CDATA and DTDs  *)
(* occur in none of the inputs considered.)                                *)
(*                                                                         *)
(* A node is [kind, name, attrs, children, text]; kind is "root",          *)
(* "element" or "text".                                                    *)
(***************************************************************************)
WsChars == {" ", "\n", "\t", "\r"}
NameStopChars == WsChars \cup {"<", ">", "/", "=", "\"", "'", "&", "!", "?"}

None == [some |-> FALSE, v |-> <<>>]
Some(x) == [some |-> TRUE, v |-> x]

TextNode(t) ==
    [kind |-> "text", name |-> <<>>, attrs |-> <<>>, children |-> <<>>, text |-> t]
ElementNode(name, attrs, children) ==
    [kind |-> "element", name |-> name, attrs |-> attrs, children |-> children,
     text |-> <<>>]
RootNode(children) ==
    [kind |-> "root", name |-> <<>>, attrs |-> <<>>, children |-> children,
     text |-> <<>>]

ParseFail == [ok |-> FALSE, pos |-> 0, nodes |-> <<>>, attrs |-> <<>>, empty |-> FALSE]

\* first position >= i that holds a character of cs, or Len(s) + 1
ScanTo(s, i, cs) ==
    CHOOSE j \in i..(Len(s) + 1) :
        /\ (j = Len(s) + 1 \/ s[j] \in cs)
        /\ \A k \in i..(j - 1) : s[k] \notin cs

\* first position >= i that holds a character outside cs, or Len(s) + 1
ScanPast(s, i, cs) ==
    CHOOSE j \in i..(Len(s) + 1) :
        /\ (j = Len(s) + 1 \/ s[j] \notin cs)
        /\ \A k \in i..(j - 1) : s[k] \in cs

At(s, i, c) == i <= Len(s) /\ s[i] = c

HasPrefix(t, p) == Len(t) >= Len(p) /\ SubSeq(t, 1, Len(p)) = p

\* character data and attribute values: entity references are replaced;
\* a "&" that starts no predefined reference is an error
RECURSIVE DecodeRefs(_)
DecodeRefs(t) ==
    IF t = <<>> THEN [ok |-> TRUE, text |-> <<>>]
    ELSE IF Head(t) # "&" THEN
        LET r == DecodeRefs(Tail(t))
        IN  [ok |-> r.ok, text |-> <<Head(t)>> \o r.text]
    ELSE
        LET Ref(p, c) ==
                LET r == DecodeRefs(SubSeq(t, Len(p) + 1, Len(t)))
                IN  [ok |-> r.ok, text |-> <<c>> \o r.text]
        IN  CASE HasPrefix(t, <<"&", "l", "t", ";">>) -> Ref(<<"&", "l", "t", ";">>, "<")
              [] HasPrefix(t, <<"&", "g", "t", ";">>) -> Ref(<<"&", "g", "t", ";">>, ">")
              [] HasPrefix(t, <<"&", "a", "m", "p", ";">>) ->
                     Ref(<<"&", "a", "m", "p", ";">>, "&")
              [] HasPrefix(t, <<"&", "q", "u", "o", "t", ";">>) ->
                     Ref(<<"&", "q", "u", "o", "t", ";">>, "\"")
              [] HasPrefix(t, <<"&", "a", "p", "o", "s", ";">>) ->
                     Ref(<<"&", "a", "p", "o", "s", ";">>, "'")
              [] OTHER -> [ok |-> FALSE, text |-> <<>>]

DecodeText(t) ==
    IF \E i \in 1..Len(t) : t[i] = "&" THEN DecodeRefs(t)
    ELSE [ok |-> TRUE, text |-> t]

\* the attributes of a start tag, from position i (just after the name) to
\* the end of the tag: ">" or "/>"
RECURSIVE ParseAttrs(_, _)
ParseAttrs(s, i) ==
    LET j == ScanPast(s, i, WsChars)
    IN  IF At(s, j, ">") THEN [ParseFail EXCEPT !.ok = TRUE, !.pos = j + 1]
        ELSE IF At(s, j, "/") /\ At(s, j + 1, ">")
        THEN [ParseFail EXCEPT !.ok = TRUE, !.pos = j + 2, !.empty = TRUE]
        ELSE
            LET e == ScanTo(s, j, NameStopChars)
                q == IF e + 1 <= Len(s) THEN s[e + 1] ELSE ""
                c == ScanTo(s, e + 2, {q})
                raw == SubSeq(s, e + 2, c - 1)
                val == DecodeText(raw)
            IN  IF \/ j = i                       \* no space before the attribute
                   \/ e = j                       \* no attribute name
                   \/ ~At(s, e, "=")
                   \/ q \notin {"\"", "'"}
                   \/ c > Len(s)                  \* the value is not closed
                   \/ \E k \in 1..Len(raw) : raw[k] = "<"
                   \/ ~val.ok
                THEN ParseFail
                ELSE
                    LET rest == ParseAttrs(s, c + 1)
                        a == [name |-> SubSeq(s, j, e - 1), value |-> val.text]
                    IN  IF ~rest.ok \/ \E k \in 1..Len(rest.attrs) :
                                            rest.attrs[k].name = a.name
                        THEN ParseFail
                        ELSE [rest EXCEPT !.attrs = <<a>> \o rest.attrs]

RECURSIVE ParseElement(_, _)
RECURSIVE ParseContent(_, _, _)

\* an element whose "<" is at position i
ParseElement(s, i) ==
    LET e == ScanTo(s, i + 1, NameStopChars)
        name == SubSeq(s, i + 1, e - 1)
        tag == ParseAttrs(s, e)
    IN  IF name = <<>> \/ ~tag.ok THEN ParseFail
        ELSE IF tag.empty
        THEN [ParseFail EXCEPT !.ok = TRUE, !.pos = tag.pos,
                               !.nodes = <<ElementNode(name, tag.attrs, <<>>)>>]
        ELSE
            LET body == ParseContent(s, tag.pos, name)
            IN  IF ~body.ok THEN ParseFail
                ELSE [ParseFail EXCEPT !.ok = TRUE, !.pos = body.pos,
                          !.nodes = <<ElementNode(name, tag.attrs, body.nodes)>>]

\* the content of the element called name, from position i up to and
\* including its end tag
ParseContent(s, i, name) ==
    IF i > Len(s) THEN ParseFail
    ELSE IF s[i] = "<" /\ At(s, i + 1, "/") THEN
        LET e == ScanTo(s, i + 2, NameStopChars)
            g == ScanPast(s, e, WsChars)
        IN  IF SubSeq(s, i + 2, e - 1) = name /\ At(s, g, ">")
            THEN [ParseFail EXCEPT !.ok = TRUE, !.pos = g + 1]
            ELSE ParseFail
    ELSE IF s[i] = "<" THEN
        LET child == ParseElement(s, i)
        IN  IF ~child.ok THEN ParseFail
            ELSE LET rest == ParseContent(s, child.pos, name)
                 IN  IF ~rest.ok THEN ParseFail
                     ELSE [rest EXCEPT !.nodes = child.nodes \o rest.nodes]
    ELSE
        LET e == ScanTo(s, i, {"<"})
            t == DecodeText(SubSeq(s, i, e - 1))
        IN  IF ~t.ok THEN ParseFail
            ELSE LET rest == ParseContent(s, e, name)
                 IN  IF ~rest.ok THEN ParseFail
                     ELSE [rest EXCEPT !.nodes = <<TextNode(t.text)>> \o rest.nodes]

\* roxmltree::Document::parse(&xml): the tree under its root node, or an
\* error; exactly one element, with only white space around it
roxmltree_parse(s) ==
    LET i == ScanPast(s, 1, WsChars)
    IN  IF ~At(s, i, "<") THEN [ok |-> FALSE, root |-> RootNode(<<>>)]
        ELSE LET el == ParseElement(s, i)
             IN  IF el.ok /\ ScanPast(s, el.pos, WsChars) = Len(s) + 1
                 THEN [ok |-> TRUE, root |-> RootNode(el.nodes)]
                 ELSE [ok |-> FALSE, root |-> RootNode(<<>>)]

\* Node::descendants(): the node and everything below it, in document order
RECURSIVE Descendants(_)
Descendants(n) ==
    <<n>> \o Concat([i \in 1..Len(n.children) |-> Descendants(n.children[i])])

\* Iterator::find(|c| c.tag_name().name() == name)
FindNamed(nodes, name) ==
    IF \E i \in 1..Len(nodes) : nodes[i].name = name
    THEN Some(nodes[CHOOSE i \in 1..Len(nodes) :
                  /\ nodes[i].name = name
                  /\ \A k \in 1..(i - 1) : nodes[k].name # name])
    ELSE None

\* Iterator::filter(|c| c.tag_name().name() == name)
RECURSIVE FilterNamed(_, _)
FilterNamed(nodes, name) ==
    IF nodes = <<>> THEN <<>>
    ELSE (IF Head(nodes).name = name THEN <<Head(nodes)>> ELSE <<>>)
         \o FilterNamed(Tail(nodes), name)

\* Node::attribute(name)
NodeAttribute(n, name) ==
    IF \E i \in 1..Len(n.attrs) : n.attrs[i].name = name
    THEN Some(n.attrs[CHOOSE i \in 1..Len(n.attrs) : n.attrs[i].name = name].value)
    ELSE None

\* Node::text(): of an element, the text of its first child when that is a
\* text node
NodeText(n) ==
    CASE n.kind = "text" -> Some(n.text)
      [] n.kind = "element" /\ n.children # <<>> /\ n.children[1].kind = "text" ->
             Some(n.children[1].text)
      [] OTHER -> None

unwrap_or(o, dflt) == IF o.some THEN o.v ELSE dflt

(***************************************************************************)
(* lib.rs: Document::xml_to_doc.  Its outcome is Ok(document), Err(error)  *)
(* (returned to the caller by `?`) or a panic (an unwrap() of None), which *)
(* aborts the caller; `line` is the source line of the unwrap.             *)
(***************************************************************************)
\* Box<dyn Error> of roxmltree::Error, of base64::DecodeError
MalformedXml == "MalformedXml"
InvalidImageEncoding == "InvalidImageEncoding"

NoResult == [tag |-> "None", err |-> "", line |-> 0, doc |-> Document_default]
Ok(doc) == [tag |-> "Ok", err |-> "", line |-> 0, doc |-> doc]
Err(e) == [tag |-> "Err", err |-> e, line |-> 0, doc |-> Document_default]
Panic(l) == [tag |-> "Panic", err |-> "", line |-> l, doc |-> Document_default]

\* match c.attribute("type").unwrap() { ... }
TypeFromAttr(v) ==
    CASE v = <<"D", "i", "a", "l", "o", "g", "u", "e">> -> "DIALOGUE"
      [] v = <<"S", "q", "u", "a", "r", "e">> -> "SQUARE"
      [] v = <<"S", "T">> -> "ST"
      [] v = <<"O", "T">> -> "OT"
      [] v = <<"T", "h", "i", "n", "k", "i", "n", "g">> -> "THINKING"
      [] OTHER -> "DIALOGUE"

\* match tl.text() { Some(t) => t.to_string(), None => String::new() }
LineTexts(nodes) ==
    [i \in 1..Len(nodes) |-> unwrap_or(NodeText(nodes[i]), <<>>)]

\* an image decode that unwraps the base64 result instead of returning it
DecodeImage_unwrap(c) ==
    LET img == FindNamed(c.children, N_img)
    IN  IF ~img.some THEN [tag |-> "Ok", err |-> "", line |-> 0, img |-> NoImage]
        ELSE
            LET ty == NodeAttribute(img.v, N_type)
                tx == NodeText(img.v)
                data == B64_decode(tx.v)
            IN  IF ~ty.some
                THEN [tag |-> "Panic", err |-> "", line |-> 323, img |-> NoImage]
                ELSE IF ~tx.some \/ ~data.ok
                THEN [tag |-> "Panic", err |-> "", line |-> 324, img |-> NoImage]
                ELSE [tag |-> "Ok", err |-> "", line |-> 0,
                      img |-> SomeImage(ty.v, data.bytes)]

\* the image of a balloon node: the body of `if img.is_some() { ... } else`
DecodeImage(c) ==
    LET img == FindNamed(c.children, N_img)
    IN  IF ~img.some THEN [tag |-> "Ok", err |-> "", line |-> 0, img |-> NoImage]
        ELSE
            LET ty == NodeAttribute(img.v, N_type)
                tx == NodeText(img.v)
                data == B64_decode(tx.v)
            IN  IF ~ty.some
                THEN [tag |-> "Panic", err |-> "", line |-> 323, img |-> NoImage]
                ELSE IF ~tx.some
                THEN [tag |-> "Panic", err |-> "", line |-> 324, img |-> NoImage]
                ELSE IF ~data.ok
                THEN [tag |-> "Err", err |-> InvalidImageEncoding, line |-> 0,
                      img |-> NoImage]
                ELSE [tag |-> "Ok", err |-> "", line |-> 0,
                      img |-> SomeImage(ty.v, data.bytes)]

\* one pass of the body of `for c in bs.children()`
DecodeBalloon(c) ==
    LET ty == NodeAttribute(c, N_type)
        img == DecodeImage(c)
        b == [btype |-> TypeFromAttr(ty.v),
              tl_content |-> LineTexts(FilterNamed(c.children, N_TL)),
              pr_content |-> LineTexts(FilterNamed(c.children, N_PR)),
              comments |-> LineTexts(FilterNamed(c.children, N_Comment)),
              balloon_img |-> img.img]
    IN  IF ~ty.some THEN [tag |-> "Panic", err |-> "", line |-> 281, b |-> Balloon_default]
        ELSE IF img.tag # "Ok"
        THEN [tag |-> img.tag, err |-> img.err, line |-> img.line, b |-> Balloon_default]
        ELSE [tag |-> "Ok", err |-> "", line |-> 0, b |-> b]

\* `for c in bs.children() { ...; d.balloons.push(b); }`
RECURSIVE DecodeBalloons(_, _)
DecodeBalloons(nodes, doc) ==
    IF nodes = <<>> THEN Ok(doc)
    ELSE
        LET r == DecodeBalloon(Head(nodes))
        IN  CASE r.tag = "Panic" -> Panic(r.line)
              [] r.tag = "Err" -> Err(r.err)
              [] OTHER ->
                  DecodeBalloons(Tail(nodes),
                      [doc EXCEPT !.balloons = Append(doc.balloons, r.b)])

\* the part of xml_to_doc after the <Metadata> and <Balloons> nodes and the
\* three children of <Metadata> are looked up, in the order of its unwrap()s
DocFromNodes(md, script, app, info, bs) ==
    IF ~md.some THEN Panic(266)
    ELSE IF ~script.some THEN Panic(271)
    ELSE IF ~app.some THEN Panic(272)
    ELSE IF ~info.some THEN Panic(273)
    ELSE IF ~bs.some THEN Panic(276)
    ELSE DecodeBalloons(bs.v.children,
             [METADATA_SCRIPT_VERSION |-> unwrap_or(NodeText(script.v), <<>>),
              METADATA_APP_VERSION |-> unwrap_or(NodeText(app.v), <<>>),
              METADATA_INFO |-> unwrap_or(NodeText(info.v), <<>>),
              balloons |-> <<>>])

\* md.children().find(|c| c.tag_name().name() == name), None when md is None
ChildNamed(md, name) == IF md.some THEN FindNamed(md.v.children, name) ELSE None

DocFromSections(md, bs) ==
    DocFromNodes(md, ChildNamed(md, N_Script), ChildNamed(md, N_App),
                 ChildNamed(md, N_Info), bs)

DocFromDescendants(all) ==
    DocFromSections(FindNamed(all, N_Metadata), FindNamed(all, N_Balloons))

DocFromTree(tree) ==
    IF ~tree.ok THEN Err(MalformedXml)
    ELSE DocFromDescendants(Descendants(tree.root))

xml_to_doc(xml) == DocFromTree(roxmltree_parse(xml))

(***************************************************************************)
(* lib.rs: the plain-text decoder, txt_to_doc.  A &str is sliced by byte   *)
(* offsets; a slice whose end lies past the text, or inside a character,   *)
(* panics.                                                                 *)
(***************************************************************************)
\* a marker test by equality instead of containment
Contains_equal(s, pat) == s = pat

\* str::contains(pat)
Contains(s, pat) ==
    \E i \in 1..(Len(s) - Len(pat) + 1) : SubSeq(s, i, i + Len(pat) - 1) = pat

\* txt.split("\n"): the pieces between the newlines, empty ones included
RECURSIVE SplitLines(_)
SplitLines(s) ==
    LET e == ScanTo(s, 1, {"\n"})
    IN  IF e > Len(s) THEN <<s>>
        ELSE <<SubSeq(s, 1, e - 1)>> \o SplitLines(SubSeq(s, e + 1, Len(s)))

\* .filter(|s| !s.is_empty())
RECURSIVE NonEmpty(_)
NonEmpty(ss) ==
    IF ss = <<>> THEN <<>>
    ELSE (IF Head(ss) = <<>> THEN <<>> ELSE <<Head(ss)>>) \o NonEmpty(Tail(ss))

\* str::trim()
Trim(s) ==
    LET keep == {i \in 1..Len(s) : s[i] \notin WsChars}
    IN  IF keep = {} THEN <<>>
        ELSE SubSeq(s, CHOOSE i \in keep : \A k \in keep : i <= k,
                       CHOOSE i \in keep : \A k \in keep : i >= k)

\* the number of characters of s that make up its first n bytes, or -1
\* when byte offset n is past the end of s or inside a character
CharsInBytes(s, n) ==
    IF \E k \in 0..Len(s) : StrLen(SubSeq(s, 1, k)) = n
    THEN CHOOSE k \in 0..Len(s) : StrLen(SubSeq(s, 1, k)) = n
    ELSE -1

\* a prefix reader that takes every line for a Dialogue line
decide_b_type_always_dialogue(ln) ==
    [panic |-> CharsInBytes(ln, 2) < 0, btype |-> "DIALOGUE"]

decide_b_type_from_txt_line_headers(ln) ==
    LET k == CharsInBytes(ln, 2)
        s == SubSeq(ln, 1, k)
    IN  IF k < 0 THEN [panic |-> TRUE, btype |-> TYPES_default]
        ELSE [panic |-> FALSE,
              btype |-> CASE s = <<"(", ")">> -> "DIALOGUE"
                          [] s = <<"O", "T">> -> "OT"
                          [] s = <<"[", "]">> -> "SQUARE"
                          [] s = <<"S", "T">> -> "ST"
                          [] s = <<"{", "}">> -> "THINKING"
                          [] OTHER -> "DIALOGUE"]

\* the loop `for i in 0..splitted.len()` of txt_to_doc, from index i (1-based)
RECURSIVE TxtLoop(_, _, _, _, _)
TxtLoop(splitted, i, texts, is_previous_double_slash, doc) ==
    IF i > Len(splitted) THEN Ok(doc)
    ELSE IF Contains(splitted[i], <<"/", "/">>)
    THEN TxtLoop(splitted, i + 1, texts, is_previous_double_slash, doc)
    ELSE
        LET current == splitted[i]
            ty == decide_b_type_from_txt_line_headers(current)
            next == IF i + 1 <= Len(splitted) THEN splitted[i + 1] ELSE <<>>
            k == CharsInBytes(current, 4)
            content == Trim(SubSeq(current, k + 1, Len(current)))
            b == [Balloon_default EXCEPT !.btype = ty.btype]
        IN  IF ty.panic THEN Panic(338)
            ELSE IF ~Contains(next, <<"/", "/">>) THEN
                IF is_previous_double_slash THEN
                    IF k < 0 THEN Panic(372)
                    ELSE TxtLoop(splitted, i + 1, Append(texts, content), FALSE,
                             [doc EXCEPT !.balloons = Append(doc.balloons,
                                 [b EXCEPT !.tl_content = Append(texts, content)])])
                ELSE
                    IF k < 0 THEN Panic(378)
                    ELSE TxtLoop(splitted, i + 1, texts, FALSE,
                             [doc EXCEPT !.balloons = Append(doc.balloons,
                                 [b EXCEPT !.tl_content = <<content>>])])
            ELSE
                IF k < 0 THEN Panic(384)
                ELSE TxtLoop(splitted, i + 1, Append(texts, content), TRUE, doc)

\* a decoder that emits one more balloon for lines left pending at the end
txt_to_doc_flush(txt) ==
    LET splitted == NonEmpty(SplitLines(txt))
        r == TxtLoop(splitted, 1, <<>>, FALSE, Document_default)
        n == Len(splitted)
    IN  IF r.tag = "Ok" /\ n >= 2 /\ Contains(splitted[n], <<"/", "/">>)
           /\ ~Contains(splitted[n - 1], <<"/", "/">>)
        THEN Ok([r.doc EXCEPT !.balloons = Append(r.doc.balloons,
                    [Balloon_default EXCEPT !.tl_content =
                        <<Trim(SubSeq(splitted[n - 1], 5, Len(splitted[n - 1])))>>])])
        ELSE r

\* a decoder that files the content it reads under the proofread lines
txt_to_doc_into_pr(txt) ==
    LET r == TxtLoop(NonEmpty(SplitLines(txt)), 1, <<>>, FALSE, Document_default)
    IN  IF r.tag # "Ok" THEN r
        ELSE Ok([r.doc EXCEPT !.balloons =
                    [i \in 1..Len(r.doc.balloons) |->
                        [r.doc.balloons[i] EXCEPT !.pr_content = r.doc.balloons[i].tl_content,
                                                  !.tl_content = <<>>]]])

txt_to_doc(txt) ==
    TxtLoop(NonEmpty(SplitLines(txt)), 1, <<>>, FALSE, Document_default)

(***************************************************************************)
(* The files save() writes and open() reads.  A file is what save() wrote  *)
(* or that content after one edit made outside the library; `edit` is that *)
(* edit, NoEdit for the file as saved.                                     *)
(***************************************************************************)
NoEdit == [op |-> "none", name |-> <<>>, text |-> <<>>]
NoFile == [ext |-> "none", content |-> <<>>, edit |-> NoEdit]

\* Document::save(out_type, fp), for OUT::RAW and OUT::TXT
save(doc, out_type) ==
    IF out_type = "RAW"
    THEN [ext |-> "sffx", content |-> Document_to_xml(doc), edit |-> NoEdit]
    ELSE [ext |-> "txt", content |-> Document_to_string(doc), edit |-> NoEdit]

\* Document::open(fp) of an existing file: the decoder its extension selects
open(f) ==
    IF f.ext = "txt" THEN txt_to_doc(f.content) ELSE xml_to_doc(f.content)

\* -- edits of a stored file ------------------------------------------------
\* first position >= from where pat occurs in s, or 0
FindSub(s, pat, from) ==
    LET m == {i \in from..(Len(s) - Len(pat) + 1) :
                 s[i] = pat[1] /\ SubSeq(s, i, i + Len(pat) - 1) = pat}
    IN  IF m = {} THEN 0 ELSE CHOOSE i \in m : \A k \in m : i <= k

\* s without its first element called name
RemoveElement(s, name) ==
    LET a == FindSub(s, OpenTag(name), 1)
        z == IF a = 0 THEN 0 ELSE FindSub(s, CloseTag(name), a)
    IN  IF a = 0 \/ z = 0 THEN s
        ELSE SubSeq(s, 1, a - 1) \o SubSeq(s, z + Len(CloseTag(name)), Len(s))

\* s with the content of its first element called name replaced by t
SetElementText(s, name, t) ==
    LET a == FindSub(s, OpenTag(name), 1)
        z == IF a = 0 THEN 0 ELSE FindSub(s, CloseTag(name), a)
    IN  IF a = 0 \/ z = 0 THEN s
        ELSE SubSeq(s, 1, a + Len(OpenTag(name)) - 1) \o t \o SubSeq(s, z, Len(s))

\* s with the type attribute of its first element called name replaced by v,
\* and the content of that element when it is an <img>
SetTypeAttr(s, name, v) ==
    LET p == <<"<">> \o name \o <<" ">> \o N_type \o <<"=", "\"">>
        a == FindSub(s, p, 1)
        z == IF a = 0 THEN 0 ELSE FindSub(s, <<"\"">>, a + Len(p))
    IN  IF a = 0 \/ z = 0 THEN s
        ELSE SubSeq(s, 1, a + Len(p) - 1) \o v \o SubSeq(s, z, Len(s))

SetImgText(s, t) ==
    LET p == <<"<">> \o N_img \o <<" ">>
        a == FindSub(s, p, 1)
        g == IF a = 0 THEN 0 ELSE FindSub(s, <<">">>, a)
        z == IF a = 0 THEN 0 ELSE FindSub(s, CloseTag(N_img), a)
    IN  IF a = 0 \/ z = 0 THEN s
        ELSE SubSeq(s, 1, g) \o t \o SubSeq(s, z, Len(s))

StaleMetric == <<"9", "9">>
StaleMetrics(s) ==
    SetElementText(SetElementText(SetElementText(SetElementText(SetElementText(
        s, N_TLLength, StaleMetric), N_PRLength, StaleMetric), N_CMLength, StaleMetric),
        N_BalloonCount, StaleMetric), N_LineCount, StaleMetric)

Bogus == <<"B", "o", "g", "u", "s">>

\* texts that are no URL-safe unpadded base64: a symbol outside the alphabet,
\* non-zero trailing bits
BadImgTexts == {<<"*">>, <<"_", "x">>}

SectionNames == {N_Metadata, N_Balloons, N_Script, N_App, N_Info}

XmlEdits ==
    [op : {"remove"}, name : SectionNames, text : {<<>>}]
    \cup [op : {"clear"}, name : {N_Script, N_Info}, text : {<<>>}]
    \cup [op : {"stale"}, name : {<<>>}, text : {<<>>}]
    \cup [op : {"type"}, name : {N_Balloon}, text : {Bogus}]
    \cup [op : {"img"}, name : {<<>>}, text : BadImgTexts]
    \cup [op : {"cut"}, name : {<<>>}, text : {<<>>}]

ApplyEdit(e, s) ==
    CASE e.op = "remove" -> RemoveElement(s, e.name)
      [] e.op = "clear" -> SetElementText(s, e.name, <<>>)
      [] e.op = "stale" -> StaleMetrics(s)
      [] e.op = "type" -> SetTypeAttr(s, e.name, e.text)
      [] e.op = "img" -> SetImgText(s, e.text)
      [] e.op = "cut" -> SubSeq(s, 1, Len(s) - 1)

(***************************************************************************)
(* The state machine: a caller edits the Document d through its public     *)
(* fields and methods, saves it, and opens what is stored.                 *)
(***************************************************************************)
LineTextsIn == {<<"a">>, <<"e_acute">>, <<"<">>, <<>>}
ImgTypes == {<<"j", "p", "g">>}
ImgDatas == {<<>>, <<255>>}
AppVersions == {<<"a">>}

BalloonSize(b) ==
    1 + Len(b.tl_content) + Len(b.pr_content) + Len(b.comments)
      + (IF b.balloon_img.some THEN 1 ELSE 0)
      + (IF b.btype # TYPES_default THEN 1 ELSE 0)

Size(doc) ==
    SumSeq(MapSeq(doc.balloons, BalloonSize))
    + (IF doc.METADATA_APP_VERSION # <<>> THEN 1 ELSE 0)

Init ==
    /\ d = Document_default
    /\ file = NoFile
    /\ res = NoResult

\* an edit of the Document in hand; the caller edits while it holds no
\* stored file and no result of open()
Edited(doc) ==
    /\ file = NoFile
    /\ res = NoResult
    /\ Size(doc) <= MaxSize
    /\ d' = doc
    /\ UNCHANGED <<file, res>>

\* d.balloons.push(Balloon::default())
PushBalloon ==
    Edited([d EXCEPT !.balloons = Append(d.balloons, Balloon_default)])

\* d.balloons.remove(i)
RemoveBalloon ==
    \E i \in 1..Len(d.balloons) :
        Edited([d EXCEPT !.balloons =
                   SubSeq(d.balloons, 1, i - 1) \o SubSeq(d.balloons, i + 1, Len(d.balloons))])

\* b.btype = t
SetType ==
    \E i \in 1..Len(d.balloons), t \in TYPES :
        /\ d.balloons[i].btype # t
        /\ Edited([d EXCEPT !.balloons[i].btype = t])

\* b.tl_content.push(t)
PushTl ==
    \E i \in 1..Len(d.balloons), t \in LineTextsIn :
        Edited([d EXCEPT !.balloons[i].tl_content = Append(@, t)])

\* b.pr_content.push(t)
PushPr ==
    \E i \in 1..Len(d.balloons), t \in LineTextsIn :
        Edited([d EXCEPT !.balloons[i].pr_content = Append(@, t)])

\* b.comments.push(t)
PushComment ==
    \E i \in 1..Len(d.balloons), t \in LineTextsIn :
        Edited([d EXCEPT !.balloons[i].comments = Append(@, t)])

\* b.add_image(img_type, img_data)
AddImage ==
    \E i \in 1..Len(d.balloons), ty \in ImgTypes, data \in ImgDatas :
        /\ d.balloons[i].balloon_img # SomeImage(ty, data)
        /\ Edited([d EXCEPT !.balloons[i] = add_image(@, ty, data)])

\* b.remove_img()
RemoveImg ==
    \E i \in 1..Len(d.balloons) :
        /\ d.balloons[i].balloon_img.some
        /\ Edited([d EXCEPT !.balloons[i] = remove_img(@)])

\* d.METADATA_APP_VERSION = v
SetAppVersion ==
    \E v \in AppVersions \cup {<<>>} :
        /\ d.METADATA_APP_VERSION # v
        /\ Edited([d EXCEPT !.METADATA_APP_VERSION = v])

\* a save that hands its balloons over to the file instead of borrowing them
Save_draining ==
    \E out_type \in {"RAW", "TXT"} :
        /\ file = NoFile
        /\ file' = save(d, out_type)
        /\ d' = [d EXCEPT !.balloons = <<>>]
        /\ UNCHANGED res

\* d.save(out_type, fp)
Save ==
    \E out_type \in {"RAW", "TXT"} :
        /\ file = NoFile
        /\ file' = save(d, out_type)
        /\ UNCHANGED <<d, res>>

\* the stored XML file is changed outside the library
EditFile ==
    \E e \in XmlEdits :
        /\ file.ext = "sffx"
        /\ file.edit = NoEdit
        /\ res = NoResult
        /\ Size(d) <= MaxEditSize
        /\ ApplyEdit(e, file.content) # file.content
        /\ file' = [file EXCEPT !.content = ApplyEdit(e, file.content), !.edit = e]
        /\ UNCHANGED <<d, res>>

\* the stored text file is cut short outside the library
CutTxt ==
    \E n \in 1..MaxCut :
        /\ file.ext = "txt"
        /\ file.edit = NoEdit
        /\ res = NoResult
        /\ n < Len(file.content)
        /\ file' = [file EXCEPT !.content = SubSeq(file.content, 1, n),
                                !.edit = [op |-> "cut", name |-> <<>>, text |-> <<>>]]
        /\ UNCHANGED <<d, res>>

\* Document::default().open(fp)
Open ==
    /\ file.ext # "none"
    /\ res = NoResult
    /\ res' = open(file)
    /\ UNCHANGED <<d, file>>

\* the caller goes on with the Document open() returned
Adopt ==
    /\ res.tag = "Ok"
    /\ d' = res.doc
    /\ file' = NoFile
    /\ res' = NoResult

\* the caller drops the stored file and the result of open()
Discard ==
    /\ file # NoFile
    /\ file' = NoFile
    /\ res' = NoResult
    /\ UNCHANGED d

Next ==
    \/ PushBalloon \/ RemoveBalloon \/ SetType
    \/ PushTl \/ PushPr \/ PushComment
    \/ AddImage \/ RemoveImg \/ SetAppVersion
    \/ Save \/ EditFile \/ CutTxt \/ Open \/ Adopt \/ Discard

Spec == Init /\ [][Next]_vars

(***************************************************************************)
(* A second state machine: a text file written outside the library, line   *)
(* by line, is opened.                                                     *)
(***************************************************************************)
Marker == <<"/", "/">>
VectorLines ==
    {<<"O", "T", ":", " ", "n", "u", "m">>,
     <<"O", "T", ":", " ", "n", "a", "m">>,
     <<"(", ")", ":", " ", "n", "u", "m">>}
\* a line shorter than the 2-byte prefix, one shorter than the 4-byte header,
\* one with the marker embedded, one with blanks around its content, and
\* the empty line
OddLines ==
    {<<"(">>,
     <<"[", "]", " ">>,
     <<"(", ")", ":", " ", "/", "/">>,
     <<"(", ")", ":", " ", " ", "a", " ">>,
     <<>>}
TxtLinesIn == {Marker} \cup VectorLines \cup OddLines

LineCost(l) == IF l = Marker THEN 1 ELSE IF l \in VectorLines THEN 2 ELSE 3
TxtSize(txt) == IF txt = <<>> THEN 0 ELSE SumSeq(MapSeq(SplitLines(txt), LineCost))

\* txt with the line l written under it
WithLine(txt, l) == IF txt = <<>> THEN l ELSE txt \o <<"\n">> \o l

InitTxt ==
    /\ d = Document_default
    /\ file = [ext |-> "txt", content |-> <<>>, edit |-> NoEdit]
    /\ res = NoResult

\* one more line is written to the text file
AppendLine ==
    \E l \in TxtLinesIn :
        /\ res = NoResult
        /\ WithLine(file.content, l) # file.content
        /\ TxtSize(WithLine(file.content, l)) <= MaxTxtSize
        /\ file' = [file EXCEPT !.content = WithLine(file.content, l)]
        /\ UNCHANGED <<d, res>>

NextTxt == AppendLine \/ Open

SpecTxt == InitTxt /\ [][NextTxt]_vars

(***************************************************************************)
(* A third state machine: a Document of balloons with translation and      *)
(* proofread lines is saved as text, and the text file is opened.          *)
(***************************************************************************)
RenderLinesIn == {<<"a">>, <<"b">>}

RenderBalloonSize(b) ==
    1 + Len(b.tl_content) + Len(b.pr_content) + (IF b.btype # TYPES_default THEN 1 ELSE 0)
RenderSize(doc) == SumSeq(MapSeq(doc.balloons, RenderBalloonSize))

InitRender ==
    /\ d = Document_default
    /\ file = NoFile
    /\ res = NoResult

\* an edit of the Document in hand, before it is saved
Built(doc) ==
    /\ file = NoFile
    /\ RenderSize(doc) <= MaxRenderSize
    /\ d' = doc
    /\ UNCHANGED <<file, res>>

\* d.balloons.push(Balloon::default())
NewBalloon == Built([d EXCEPT !.balloons = Append(d.balloons, Balloon_default)])

\* d.balloons[i].tl_content.push(t)
NewTl ==
    \E i \in 1..Len(d.balloons), t \in RenderLinesIn :
        Built([d EXCEPT !.balloons[i].tl_content = Append(@, t)])

\* d.balloons[i].pr_content.push(t)
NewPr ==
    \E i \in 1..Len(d.balloons), t \in RenderLinesIn :
        Built([d EXCEPT !.balloons[i].pr_content = Append(@, t)])

\* d.balloons[i].btype = t
NewType ==
    \E i \in 1..Len(d.balloons), t \in TYPES :
        /\ d.balloons[i].btype = TYPES_default
        /\ t # TYPES_default
        /\ Built([d EXCEPT !.balloons[i].btype = t])

\* d.save(OUT::TXT, fp)
SaveTxt ==
    /\ file = NoFile
    /\ file' = save(d, "TXT")
    /\ UNCHANGED <<d, res>>

NextRender == NewBalloon \/ NewTl \/ NewPr \/ NewType \/ SaveTxt \/ Open

SpecRender == InitRender /\ [][NextRender]_vars

(***************************************************************************)
(* Properties.  While a file is stored, d is the Document it was saved     *)
(* from: d is edited only while no file is stored.                         *)
(***************************************************************************)
SavedXml == file.ext = "sffx" /\ file.edit = NoEdit
SavedTxt == file.ext = "txt" /\ file.edit = NoEdit
Opened == res # NoResult

ReservedChars == {"<", ">", "&", "\"", "'"}
NoReserved(t) == \A i \in 1..Len(t) : t[i] \notin ReservedChars

BalloonTexts(b) ==
    {b.tl_content[i] : i \in 1..Len(b.tl_content)}
    \cup {b.pr_content[i] : i \in 1..Len(b.pr_content)}
    \cup {b.comments[i] : i \in 1..Len(b.comments)}
    \cup (IF b.balloon_img.some THEN {b.balloon_img.img_type} ELSE {})

DocTexts(doc) ==
    {doc.METADATA_SCRIPT_VERSION, doc.METADATA_APP_VERSION, doc.METADATA_INFO}
    \cup UNION {BalloonTexts(doc.balloons[i]) : i \in 1..Len(doc.balloons)}

NoReservedDoc(doc) == \A t \in DocTexts(doc) : NoReserved(t)

\* C1: XML round trip.  For any Document d, decoding the XML d renders
\* succeeds and yields a Document that renders the same XML, character for
\* character.  (Stated as claimed; the code violates it.)
C1_XmlRoundTrip ==
    (SavedXml /\ Opened) =>
        (res.tag = "Ok" /\ Document_to_xml(res.doc) = file.content)

\* C2: balloon order survives the XML round trip.  For a Document d whose
\* text holds no XML-reserved character, decoding its XML succeeds and
\* gives the same three metadata strings, as many balloons, and for every
\* index a balloon of the same kind with the same translation, proofread and
\* comment lines in the same order.  (Stated as claimed; the code violates it.)
C2_OrderPreserved ==
    (SavedXml /\ Opened /\ NoReservedDoc(d)) =>
        /\ res.tag = "Ok"
        /\ res.doc.METADATA_SCRIPT_VERSION = d.METADATA_SCRIPT_VERSION
        /\ res.doc.METADATA_APP_VERSION = d.METADATA_APP_VERSION
        /\ res.doc.METADATA_INFO = d.METADATA_INFO
        /\ Len(res.doc.balloons) = Len(d.balloons)
        /\ \A i \in 1..Len(d.balloons) :
              /\ res.doc.balloons[i].btype = d.balloons[i].btype
              /\ res.doc.balloons[i].tl_content = d.balloons[i].tl_content
              /\ res.doc.balloons[i].pr_content = d.balloons[i].pr_content
              /\ res.doc.balloons[i].comments = d.balloons[i].comments

\* -- reading a rendering back, independently of the decoder ------------------
\* the characters between the first "<name>" of s and the "</name>" after it
ElementText(s, name) ==
    LET a == FindSub(s, OpenTag(name), 1)
        z == FindSub(s, CloseTag(name), a)
    IN  SubSeq(s, a + Len(OpenTag(name)), z - 1)

DigitValue(c) == CHOOSE v \in 0..9 : DigitChars[v + 1] = c
RECURSIVE ReadUsize(_)
ReadUsize(cs) ==
    IF cs = <<>> THEN 0
    ELSE ReadUsize(SubSeq(cs, 1, Len(cs) - 1)) * 10 + DigitValue(cs[Len(cs)])

\* the five metric values an XML rendering states
EmittedMetrics(xml) ==
    [n \in {N_TLLength, N_PRLength, N_CMLength, N_BalloonCount, N_LineCount} |->
        ReadUsize(ElementText(xml, n))]

\* the lines a balloon shows: its proofread lines if it has any, else its
\* translation lines
Shown(b) == IF b.pr_content # <<>> THEN b.pr_content ELSE b.tl_content

\* all characters of the lines of list f ("tl_content", ...) of all balloons
FlatChars(doc, f) ==
    Concat([i \in 1..Len(doc.balloons) |-> Concat(doc.balloons[i][f])])

\* one pair per shown line of the document
ShownLinePairs(doc) ==
    UNION {{<<i, j>> : j \in 1..Len(Shown(doc.balloons[i]))} : i \in 1..Len(doc.balloons)}

\* the metric values, counted from the balloon list
Recomputed(doc) ==
    [n \in {N_TLLength, N_PRLength, N_CMLength, N_BalloonCount, N_LineCount} |->
        CASE n = N_TLLength -> StrLen(FlatChars(doc, "tl_content"))
          [] n = N_PRLength -> StrLen(FlatChars(doc, "pr_content"))
          [] n = N_CMLength -> StrLen(FlatChars(doc, "comments"))
          [] n = N_BalloonCount -> Len(doc.balloons)
          [] n = N_LineCount -> Cardinality(ShownLinePairs(doc))]

MetricsFresh(doc) == EmittedMetrics(Document_to_xml(doc)) = Recomputed(doc)

\* the Documents to look at in a state: d (which does not change while a
\* file is stored, so it is looked at before the save) and a decoded one
DocsInHand ==
    (IF file = NoFile THEN {d} ELSE {}) \cup (IF res.tag = "Ok" THEN {res.doc} ELSE {})
BalloonsOf(doc) == {doc.balloons[i] : i \in 1..Len(doc.balloons)}
BalloonsInHand == UNION {BalloonsOf(doc) : doc \in DocsInHand}

\* C3: derived metrics are never stale.  In every state the Document in hand
\* (built by any edits, or adopted from a decode) renders the five metric
\* values counted from its current balloon list, and so does every decoded
\* Document; the XML save() wrote states them; and decoding XML whose stored
\* metric values disagree with its balloons gives exactly what decoding it
\* with the true values gives, so the disagreement never makes a decode fail.
C3_MetricsNeverStale ==
    /\ \A doc \in DocsInHand : MetricsFresh(doc)
    /\ (SavedXml => EmittedMetrics(file.content) = Recomputed(d))
    /\ (file.edit.op = "stale" /\ Opened => res = xml_to_doc(Document_to_xml(d)))

\* a decode of XML with disagreeing metric values succeeded, and the
\* decoded Document has content to count
C3_Witness ==
    /\ file.edit.op = "stale"
    /\ res.tag = "Ok"
    /\ Len(res.doc.balloons) > 0
    /\ EmittedMetrics(file.content) # Recomputed(res.doc)
    /\ Recomputed(res.doc)[N_TLLength] > 0

RECURSIVE SplitOn(_, _)
SplitOn(s, sep) ==
    LET a == FindSub(s, sep, 1)
    IN  IF a = 0 THEN <<s>>
        ELSE <<SubSeq(s, 1, a - 1)>> \o SplitOn(SubSeq(s, a + Len(sep), Len(s)), sep)

\* C5: proofread precedence in plain text.  Balloon::to_string renders the
\* shown lines only (the proofread lines if there are any, else the
\* translation lines), each behind the header of the balloon type, joined in
\* order by "\n//\n"; nothing else (no translation line under proofread
\* lines, no comment, no image) is in it.  The text save() writes is the
\* renderings of the balloons, in list order, joined by "\n\n".
C5_ProofreadPrecedence ==
    /\ \A b \in BalloonsInHand :
          IF Shown(b) = <<>> THEN Balloon_to_string(b) = <<>>
          ELSE SplitOn(Balloon_to_string(b), LineSep)
                   = [i \in 1..Len(Shown(b)) |-> TypeHeader(b.btype) \o Shown(b)[i]]
    /\ SavedTxt =>
          IF d.balloons = <<>> THEN file.content = <<>>
          ELSE SplitOn(file.content, BalloonSep)
                   = [i \in 1..Len(d.balloons) |-> Balloon_to_string(d.balloons[i])]

\* a text file was saved from a Document with a balloon that has translation
\* lines under its proofread lines
C5_Witness ==
    /\ SavedTxt
    /\ \E b \in BalloonsOf(d) : b.pr_content # <<>> /\ b.tl_content # <<>>

\* what a reader of the balloon element finds: the names of its children
ChildNames(n) == [i \in 1..Len(n.children) |-> n.children[i].name]
Repeat(x, n) == [i \in 1..n |-> x]

RECURSIVE EmitLines(_, _)
EmitLines(name, lines) ==
    IF lines = <<>> THEN <<>>
    ELSE <<"<">> \o name \o <<">">> \o Head(lines) \o <<"<", "/">> \o name \o <<">">>
         \o EmitLines(name, Tail(lines))

TagOrderOf(b) ==
    LET x == Balloon_to_xml(b)
        t == roxmltree_parse(x)
        el == t.root.children[1]
    IN  /\ x = <<"<", "B", "a", "l", "l", "o", "o", "n", " ", "t", "y", "p", "e", "=", "\"">>
               \o TypeAttr(b.btype) \o <<"\"", ">">>
               \o EmitLines(<<"T", "L">>, b.tl_content)
               \o EmitLines(<<"P", "R">>, b.pr_content)
               \o EmitLines(<<"C", "o", "m", "m", "e", "n", "t">>, b.comments)
               \o (IF b.balloon_img.some
                   THEN <<"<", "i", "m", "g", " ", "t", "y", "p", "e", "=", "\"">>
                        \o b.balloon_img.img_type \o <<"\"", ">">>
                        \o B64_encode(b.balloon_img.img_data)
                        \o <<"<", "/", "i", "m", "g", ">">>
                   ELSE <<>>)
               \o <<"<", "/", "B", "a", "l", "l", "o", "o", "n", ">">>
        /\ (\A s \in BalloonTexts(b) : NoReserved(s)) =>
              /\ t.ok
              /\ el.name = N_Balloon
              /\ el.attrs = <<[name |-> N_type, value |-> TypeAttr(b.btype)]>>
              /\ ChildNames(el) = Repeat(N_TL, Len(b.tl_content))
                                  \o Repeat(N_PR, Len(b.pr_content))
                                  \o Repeat(N_Comment, Len(b.comments))
                                  \o Repeat(N_img, IF b.balloon_img.some THEN 1 ELSE 0)
              /\ LineTexts(FilterNamed(el.children, N_TL)) = b.tl_content
              /\ LineTexts(FilterNamed(el.children, N_PR)) = b.pr_content
              /\ LineTexts(FilterNamed(el.children, N_Comment)) = b.comments

\* C6: fixed tag order in balloon XML.  Balloon::to_xml emits the opening
\* Balloon tag with the type attribute, all TL elements in list order, all PR
\* elements in list order, all Comment elements in list order, one img
\* element exactly when an image is present, and the closing tag; there are
\* as many TL, PR and Comment elements as lines in the respective list.
C6_FixedTagOrder == \A b \in BalloonsInHand : TagOrderOf(b)

\* a Document in hand with a balloon that has both translation and
\* proofread lines
C6_Witness ==
    /\ \E b \in BalloonsOf(d) : b.tl_content # <<>> /\ b.pr_content # <<>>
    /\ file = NoFile /\ res = NoResult

\* the result of decoding the stored file as it was before the outside edit
Unedited == xml_to_doc(Document_to_xml(d))

\* C7: unknown type leniency.  Decoding never fails because of a balloon
\* type value: stored XML whose first Balloon type attribute was replaced by
\* "Bogus" decodes to what it decoded to before with that balloon a
\* Dialogue, and decoding a text file never fails in reading the type prefix
\* of a line, however short the line is.  (Stated as claimed; the code
\* violates it.)
C7_UnknownTypeLeniency ==
    /\ (file.edit.op = "type" /\ Opened /\ Unedited.tag = "Ok") =>
           res = Ok([Unedited.doc EXCEPT !.balloons[1].btype = "DIALOGUE"])
    /\ (file.ext = "txt" /\ Opened) => ~(res.tag = "Panic" /\ res.line = 338)

\* the element names in a well-formed XML text
NamesIn(xml) ==
    LET all == Descendants(roxmltree_parse(xml).root)
    IN  {all[i].name : i \in 1..Len(all)}

\* C8: a missing required section is a returned failure.  Decoding
\* well-formed XML with no Metadata element, or with Metadata but no
\* Balloons element, returns a failure value (of a kind other than
\* malformed XML and invalid image encoding) and does not abort.  (Stated
\* as claimed; the code violates it.)
C8_MissingSectionReturned ==
    (file.ext = "sffx" /\ Opened /\ roxmltree_parse(file.content).ok
        /\ (N_Metadata \notin NamesIn(file.content)
             \/ N_Balloons \notin NamesIn(file.content))) =>
        /\ res.tag = "Err"
        /\ res.err \notin {MalformedXml, InvalidImageEncoding}

\* the Document field a child of Metadata is read into
FieldOf(name) ==
    CASE name = N_Script -> "METADATA_SCRIPT_VERSION"
      [] name = N_App -> "METADATA_APP_VERSION"
      [] name = N_Info -> "METADATA_INFO"

\* C9: lenient optional text.  Stored XML that decoded without failure
\* still does after its Script, App or Info element is emptied or removed,
\* to the same Document with the empty string in the field of that element;
\* and a TL, PR or Comment element with no text decodes to an empty line.
\* (Stated as claimed; the code violates it.)
C9_LenientOptionalText ==
    /\ (file.edit.op \in {"remove", "clear"} /\ file.edit.name \in {N_Script, N_App, N_Info}
           /\ Opened /\ Unedited.tag = "Ok") =>
           res = Ok([Unedited.doc EXCEPT ![FieldOf(file.edit.name)] = <<>>])
    /\ (SavedXml /\ Opened /\ res.tag = "Ok") =>
           /\ Len(res.doc.balloons) = Len(d.balloons)
           /\ \A i \in 1..Len(d.balloons) :
                 /\ res.doc.balloons[i].tl_content = d.balloons[i].tl_content
                 /\ res.doc.balloons[i].pr_content = d.balloons[i].pr_content
                 /\ res.doc.balloons[i].comments = d.balloons[i].comments

\* C10: codec failures are returned, never aborted.  Decoding a stored XML
\* file that is not well-formed (its last character cut off, a line with a
\* bare "<" in it, or any text the XML reader rejects) returns the failure
\* MalformedXml; decoding well-formed stored XML in which the text of the
\* img element is no URL-safe unpadded base64 returns the failure
\* InvalidImageEncoding.  Either is a returned value that carries no
\* Document; the decoder does not abort.
C10_CodecFailuresReturned ==
    /\ (file.ext = "sffx" /\ Opened /\ file.edit.op = "cut") => res = Err(MalformedXml)
    /\ (SavedXml /\ Opened /\ (\E t \in DocTexts(d) : \E i \in 1..Len(t) : t[i] = "<")) =>
           res = Err(MalformedXml)
    /\ (file.ext = "sffx" /\ Opened /\ ~roxmltree_parse(file.content).ok) =>
           res = Err(MalformedXml)
    /\ (file.ext = "sffx" /\ Opened /\ roxmltree_parse(file.content).ok
           /\ file.edit.op = "img") =>
           (~B64_decode(file.edit.text).ok /\ res = Err(InvalidImageEncoding))

\* well-formed XML whose img text has non-zero trailing bits was opened
C10_Witness ==
    /\ file.edit.op = "img"
    /\ file.edit.text = <<"_", "x">>
    /\ roxmltree_parse(file.content).ok
    /\ res.tag = "Err"


(***************************************************************************)
(* Properties of the plain-text decoder, for text files written outside.   *)
(***************************************************************************)
TxtOpened == file.ext = "txt" /\ Opened
\* the lines the decoder looks at: the non-empty lines of the file
Lines == NonEmpty(SplitLines(file.content))
\* the translation lines of the balloons of a Document, balloon by balloon
TlOf(doc) == [i \in 1..Len(doc.balloons) |-> doc.balloons[i].tl_content]
KindsOf(doc) == [i \in 1..Len(doc.balloons) |-> doc.balloons[i].btype]

\* C11: the plain-text parser never fails structurally.  For every input
\* text, the empty text, short lines and marker-only texts included,
\* txt_to_doc returns a Document: no failure result and no abort.  (Stated
\* as claimed; the code violates it.)
C11_TxtNeverFails == TxtOpened => res.tag = "Ok"

\* the text "OT: num\n//\nOT: nam\n(): num"
VectorText ==
    <<"O", "T", ":", " ", "n", "u", "m", "\n", "/", "/", "\n",
      "O", "T", ":", " ", "n", "a", "m", "\n", "(", ")", ":", " ", "n", "u", "m">>

\* C12 as claimed: decoding the lines "OT: num", "//", "OT: nam", "(): num"
\* yields two balloons, the first an OverText balloon whose translation
\* lines are the one-element list ["numnam"], the second a Dialogue balloon
\* with the translation lines ["num"].
C12_VectorAsClaimed ==
    (TxtOpened /\ file.content = VectorText) =>
        /\ res.tag = "Ok"
        /\ KindsOf(res.doc) = <<"OT", "DIALOGUE">>
        /\ TlOf(res.doc) = << <<<<"n", "u", "m", "n", "a", "m">>>>, <<<<"n", "u", "m">>>> >>

\* C12 (amended): decoding the lines "OT: num", "//", "OT: nam", "(): num"
\* yields two balloons, the first an OverText balloon whose translation
\* lines are the two-element list ["num", "nam"] (the lines of the
\* continuation group in order, not concatenated), the second a Dialogue
\* balloon with the translation lines ["num"].
C12_ReconstructionVector ==
    (TxtOpened /\ file.content = VectorText) =>
        /\ res.tag = "Ok"
        /\ KindsOf(res.doc) = <<"OT", "DIALOGUE">>
        /\ TlOf(res.doc) = << <<<<"n", "u", "m">>, <<"n", "a", "m">>>>, <<<<"n", "u", "m">>>> >>

\* the vector text was opened
C12_Witness == TxtOpened /\ file.content = VectorText /\ Len(res.doc.balloons) = 2


\* whether the line l holds "//" somewhere
HasMarker(l) == \E i \in 1..(Len(l) - 1) : l[i] = "/" /\ l[i + 1] = "/"
\* the content of a line: what follows its 4-byte header, trimmed
ContentOf(l) == Trim(SubSeq(l, CharsInBytes(l, 4) + 1, Len(l)))
\* the line after line i of ls, the empty line at the end
NextLine(ls, i) == IF i + 1 <= Len(ls) THEN ls[i + 1] ELSE <<>>

\* the translation lines of the balloons of the lines ls from line i on,
\* when every balloon emitted takes the pending lines with it: the lines of
\* its own continuation group
RECURSIVE GroupsFrom(_, _, _)
GroupsFrom(ls, i, pending) ==
    IF i > Len(ls) THEN <<>>
    ELSE IF HasMarker(ls[i]) THEN GroupsFrom(ls, i + 1, pending)
    ELSE IF HasMarker(NextLine(ls, i))
    THEN GroupsFrom(ls, i + 1, Append(pending, ContentOf(ls[i])))
    ELSE <<Append(pending, ContentOf(ls[i]))>> \o GroupsFrom(ls, i + 1, <<>>)

\* C15: the continuation flush resets the accumulator.  The translation
\* lines of every balloon the plain-text parser emits are the contents of
\* the lines of its own continuation group, in order; after a balloon is
\* emitted nothing is pending, so no balloon holds a line of an earlier
\* group.  (Stated as claimed; the code violates it.)
C15_FlushResets ==
    (TxtOpened /\ res.tag = "Ok") => TlOf(res.doc) = GroupsFrom(Lines, 1, <<>>)

\* the text with each of its lines that holds "//" replaced by the line "//"
RECURSIVE PlainMarkers(_)
PlainMarkers(ls) ==
    IF ls = <<>> THEN <<>>
    ELSE <<IF HasMarker(Head(ls)) THEN Marker ELSE Head(ls)>> \o PlainMarkers(Tail(ls))

\* C16: marker lines never become content.  Every line that holds "//"
\* anywhere is skipped: each translation line of each emitted balloon is
\* the content of a line without "//", and what else a marker line holds
\* does not matter: the result is that of the same text with the line "//"
\* in the place of each marker line.
C16_MarkersNeverContent ==
    TxtOpened =>
        /\ res.tag = "Ok" =>
              \A i \in 1..Len(res.doc.balloons) :
                  \A j \in 1..Len(res.doc.balloons[i].tl_content) :
                      /\ ~HasMarker(res.doc.balloons[i].tl_content[j])
                      /\ \E k \in 1..Len(Lines) :
                            /\ ~HasMarker(Lines[k])
                            /\ res.doc.balloons[i].tl_content[j] = ContentOf(Lines[k])
        /\ res = txt_to_doc(Join(PlainMarkers(SplitLines(file.content)), <<"\n">>))

\* a text with a line that holds "//" besides other characters was decoded
\* to a Document with balloons
C16_Witness ==
    /\ TxtOpened /\ res.tag = "Ok"
    /\ Len(res.doc.balloons) > 0
    /\ \E k \in 1..Len(Lines) : HasMarker(Lines[k]) /\ Lines[k] # Marker

\* the lines that emit a balloon: those without "//" whose next line (the
\* empty line at the end of the text) is without "//" too
EmittingLines(ls) ==
    {i \in 1..Len(ls) : ~HasMarker(ls[i]) /\ ~HasMarker(NextLine(ls, i))}

\* C17: no trailing flush.  The number of balloons of the result is the
\* number of lines without "//" whose next line is without "//"; a text
\* that ends while lines are pending (its last content line is followed by a
\* marker line) gets no balloon for the pending lines.
C17_NoTrailingFlush ==
    (TxtOpened /\ res.tag = "Ok") =>
        Len(res.doc.balloons) = Cardinality(EmittingLines(Lines))

\* a text that ends with a content line and a marker line, after a balloon,
\* was decoded
C17_Witness ==
    /\ TxtOpened /\ res.tag = "Ok"
    /\ Len(Lines) >= 3
    /\ HasMarker(Lines[Len(Lines)])
    /\ ~HasMarker(Lines[Len(Lines) - 1])
    /\ Len(res.doc.balloons) = 1

\* C18: shape of plain-text parse results.  Every balloon of a Document the
\* plain-text parser returns has at least one translation line, no proofread
\* line, no comment and no image, and the three metadata strings of the
\* Document are the defaults.
C18_TxtResultShape ==
    (TxtOpened /\ res.tag = "Ok") =>
        /\ \A i \in 1..Len(res.doc.balloons) :
              /\ Len(res.doc.balloons[i].tl_content) >= 1
              /\ res.doc.balloons[i].pr_content = <<>>
              /\ res.doc.balloons[i].comments = <<>>
              /\ res.doc.balloons[i].balloon_img = NoImage
        /\ res.doc.METADATA_SCRIPT_VERSION = ScriptVersionDefault
        /\ res.doc.METADATA_APP_VERSION = <<>>
        /\ res.doc.METADATA_INFO = InfoDefault

\* a text was decoded to two balloons, one of them with two lines
C18_Witness ==
    /\ TxtOpened /\ res.tag = "Ok"
    /\ Len(res.doc.balloons) = 2
    /\ \E i \in 1..2 : Len(res.doc.balloons[i].tl_content) = 2


\* a line the text form can carry: no newline, no "//", no blank at either end
Carriable(t) ==
    /\ \A i \in 1..Len(t) : t[i] # "\n"
    /\ ~HasMarker(t)
    /\ t = <<>> \/ (t[1] \notin WsChars /\ t[Len(t)] \notin WsChars)

\* every balloon of doc shows at least one line, and all shown lines are
\* carriable
Reconstructible(doc) ==
    \A i \in 1..Len(doc.balloons) :
        /\ Shown(doc.balloons[i]) # <<>>
        /\ \A j \in 1..Len(Shown(doc.balloons[i])) : Carriable(Shown(doc.balloons[i])[j])

\* C13: plain-text render/parse reconstruction.  For every Document d whose
\* balloons each show at least one line, none of the shown lines holding a
\* newline, "//" or a blank at either end, parsing to_string(d) yields a
\* Document with as many balloons, the i-th of the kind of the i-th balloon
\* of d and with the shown lines of that balloon as its translation lines,
\* and with the line_count of d.  (Stated as claimed; the code violates it.)
C13_RenderParseReconstruction ==
    (SavedTxt /\ Opened /\ Reconstructible(d)) =>
        /\ res.tag = "Ok"
        /\ KindsOf(res.doc) = KindsOf(d)
        /\ TlOf(res.doc) = [i \in 1..Len(d.balloons) |-> Shown(d.balloons[i])]
        /\ Document_line_count(res.doc) = Document_line_count(d)


(***************************************************************************)
(* Properties of rendering and of images, for the first state machine.     *)
(***************************************************************************)
\* the rendering a stored file was written as
Rendering(doc, f) ==
    IF f.ext = "sffx" THEN Document_to_xml(doc) ELSE Document_to_string(doc)

C19_ImageRoundTrip ==
    (SavedXml /\ Opened /\ NoReservedDoc(d)) =>
        /\ res.tag = "Ok"
        /\ Len(res.doc.balloons) = Len(d.balloons)
        /\ \A i \in 1..Len(d.balloons) :
              res.doc.balloons[i].balloon_img = d.balloons[i].balloon_img


=============================================================================
